---- MODULE Spec2Model ----
(***************************************************************************)
(* Model of dot1x_applier.py: the Nornir tasks that gather switch data,    *)
(* choose the IBNS dialect, classify interfaces, render, apply, verify and *)
(* save dot1x configuration.                                               *)
(*                                                                         *)
(* Python strings whose content matters (model names, VLAN numbers,        *)
(* rendered text) are sequences of one-character or token strings, so that *)
(* substring tests, str(), split() and join() are computed, not assumed.   *)
(* The inventory lists uplinks and excluded_intf are only ever read with   *)
(* `in`, so they are sets here.                                            *)
(***************************************************************************)
EXTENDS Integers, Sequences, FiniteSets, TLC

(***************************************************************************)
(* Bounds of the model.                                                    *)
(***************************************************************************)
MaxModelLen == 5
NumPorts == 2
MaxIntfs == 2
MaxVlans == 2
NumHosts == 2

(***************************************************************************)
(* State.  host/device/stage/render/cfg_file are one switch seen by the    *)
(* tasks get_info and render_configs; the remaining variables are main()'s *)
(* run of the five tasks over all switches of the inventory.               *)
(***************************************************************************)
VARIABLES
    device,        \* what the switch answers: hardware string, switchport rows
    host,          \* task.host, the per-switch dictionary the tasks fill in
    stage,         \* how far the tasks have got on this switch
    render,        \* results of the three template renderings
    cfg_file,      \* contents of configs/<host>_dot1x.txt
    main_pc,       \* the nr.run call main() is in
    nr_devices,    \* per switch: what it answers
    nr_hosts,      \* per switch: task.host
    results,       \* per switch: result of the current nr.run ("none" while pending)
    failed_hosts,  \* nr.data.failed_hosts: switches later runs skip
    progress,      \* per switch: tasks completed, and the task that raised
    fault,         \* per switch: the task in which a collaborator raised
    confirm,       \* per switch: what the operator typed at each proceed() prompt
    switches       \* per switch: config pushed, config saved, dot1x status shown

task_vars == <<device, host, stage, render, cfg_file>>

run_vars == <<main_pc, nr_devices, nr_hosts, results, failed_hosts, progress,
              fault, confirm, switches>>

vars == <<task_vars, run_vars>>

(***************************************************************************)
(* Python string helpers.                                                  *)
(***************************************************************************)
Range(s) == {s[i] : i \in 1..Len(s)}

\* sub in s, for strings
Contains(sub, s) ==
    \E i \in 1..(Len(s) - Len(sub) + 1) : SubSeq(s, i, i + Len(sub) - 1) = sub

Digits == <<"0", "1", "2", "3", "4", "5", "6", "7", "8", "9">>

RECURSIVE str(_)
\* str(n) for a non-negative int
str(n) == IF n < 10 THEN <<Digits[n + 1]>>
          ELSE str(n \div 10) \o <<Digits[(n % 10) + 1]>>

RECURSIVE split(_, _)
\* s.split(sep) for a one-character separator
split(s, sep) ==
    IF \A i \in 1..Len(s) : s[i] # sep THEN <<s>>
    ELSE LET k == CHOOSE i \in 1..Len(s) :
                      s[i] = sep /\ \A j \in 1..(i - 1) : s[j] # sep
         IN <<SubSeq(s, 1, k - 1)>> \o split(SubSeq(s, k + 1, Len(s)), sep)

RECURSIVE join(_, _)
\* sep.join(parts)
join(sep, parts) ==
    IF Len(parts) = 0 THEN <<>>
    ELSE IF Len(parts) = 1 THEN parts[1]
    ELSE parts[1] \o <<sep>> \o join(sep, Tail(parts))

(***************************************************************************)
(* get_info: the data it derives from the device's answers.                *)
(***************************************************************************)
Model3750 == <<"3", "7", "5", "0">>

\* hardware[0].split("-"); sw_model is element [1] of it
sw_model_parts(hardware) == split(hardware, "-")

\* the split has an element [1] (otherwise IndexError fails the task)
get_info_ok(dev) == Len(sw_model_parts(dev.hardware)) >= 2

\* variant: the model must start with "3750"
select_ibns_ver_prefix(sw_model) ==
    IF Len(sw_model) >= 4 /\ SubSeq(sw_model, 1, 4) = Model3750 THEN "v1" ELSE "v2"

\* choose template based on switch model
select_ibns_ver(sw_model) == IF Contains(Model3750, sw_model) THEN "v1" ELSE "v2"

\* convert vlans in inventory from int to str
vlans_to_str(vlans) == [i \in 1..Len(vlans) |-> str(vlans[i])]

get_info_host(h, dev) ==
    LET model == sw_model_parts(dev.hardware)[2]
        vl == vlans_to_str(h.vlans)
    IN [h EXCEPT !.sw_model = model,
                 !.intfs = dev.switchport,
                 !.vlans = vl,
                 !.vlan_list = join(",", vl),
                 !.ibns_ver = select_ibns_ver(model)]

(***************************************************************************)
(* ibns_intf: the loop that sorts interfaces into uplink and access lists. *)
(***************************************************************************)
EmptyLists == [uplink_interfaces |-> <<>>, access_interfaces |-> <<>>]

\* variant: the vlan test is skipped for IBNS v1
classify_step_v1_unfiltered(h, intf, lists) ==
    IF intf.interface \in h.uplinks
    THEN [lists EXCEPT !.uplink_interfaces = Append(@, intf)]
    ELSE IF intf.interface \notin h.excluded_intf
         THEN IF h.ibns_ver = "v1" \/ intf.access_vlan \in Range(h.vlans)
              THEN [lists EXCEPT !.access_interfaces = Append(@, intf)]
              ELSE lists
         ELSE lists

\* variant: the vlan test is missing
classify_step_unfiltered(h, intf, lists) ==
    IF intf.interface \in h.uplinks
    THEN [lists EXCEPT !.uplink_interfaces = Append(@, intf)]
    ELSE IF intf.interface \notin h.excluded_intf
         THEN [lists EXCEPT !.access_interfaces = Append(@, intf)]
         ELSE lists

\* variant: `if` in place of `elif`, so an uplink is tested for access too
classify_step_if(h, intf, lists) ==
    LET l1 == IF intf.interface \in h.uplinks
              THEN [lists EXCEPT !.uplink_interfaces = Append(@, intf)]
              ELSE lists
    IN IF intf.interface \notin h.excluded_intf
          /\ intf.access_vlan \in Range(h.vlans)
       THEN [l1 EXCEPT !.access_interfaces = Append(@, intf)]
       ELSE l1

\* variant: the exclusion test comes before the uplink test
classify_step_excluded_first(h, intf, lists) ==
    IF intf.interface \in h.excluded_intf
    THEN lists
    ELSE IF intf.interface \in h.uplinks
         THEN [lists EXCEPT !.uplink_interfaces = Append(@, intf)]
         ELSE IF intf.access_vlan \in Range(h.vlans)
              THEN [lists EXCEPT !.access_interfaces = Append(@, intf)]
              ELSE lists

\* one iteration of the loop over task.host['intfs']
classify_step(h, intf, lists) ==
    IF intf.interface \in h.uplinks
    THEN [lists EXCEPT !.uplink_interfaces = Append(@, intf)]
    ELSE IF intf.interface \notin h.excluded_intf
         THEN IF intf.access_vlan \in Range(h.vlans)
              THEN [lists EXCEPT !.access_interfaces = Append(@, intf)]
              ELSE lists
         ELSE lists

RECURSIVE classify_loop(_, _)
\* the lists after the first k interfaces
classify_loop(h, k) ==
    IF k = 0 THEN EmptyLists
    ELSE classify_step(h, h.intfs[k], classify_loop(h, k - 1))

classify(h) == classify_loop(h, Len(h.intfs))

(***************************************************************************)
(* Template names and rendering.  A rendered text is a sequence of tokens. *)
(***************************************************************************)
global_template(h) == <<"IBNS", h.ibns_ver, "_", h.region, "_global.j2">>

uplink_template == <<"IBNS_uplink_intf.j2">>

access_template(h) == <<"IBNS", h.ibns_ver, "_access_intf.j2">>

RECURSIVE render_intfs(_, _)
\* an interface template emits one block per interface of the list it loops over
render_intfs(template, intfs) ==
    IF Len(intfs) = 0 THEN <<>>
    ELSE template \o <<intfs[1].interface>> \o intfs[1].access_vlan
         \o render_intfs(template, Tail(intfs))

\* a global template emits one block that names the vlan list
render_global(template, h) == template \o h.vlan_list

\* ibns_intf returns the uplink text followed by the access text
ibns_intf_result(uplink_intf_cfg, access_intf_cfg) ==
    uplink_intf_cfg \o access_intf_cfg

\* variant: the interface sections come first
concat_cfg_intf_first(global_cfg, intf_cfg) == intf_cfg \o <<"\n">> \o global_cfg

\* render_configs saves the concatenated config to task.host['cfg_out']
concat_cfg(global_cfg, intf_cfg) == global_cfg \o <<"\n">> \o intf_cfg

\* render_configs on one task.host: the dictionary afterwards, the three
\* rendered texts and the file written
render_configs_host(h) ==
    LET global_cfg == render_global(global_template(h), h)
        lists == classify(h)
        h1 == [h EXCEPT !.uplink_interfaces = lists.uplink_interfaces]
        uplink_intf_cfg == render_intfs(uplink_template, h1.uplink_interfaces)
        h2 == [h1 EXCEPT !.access_interfaces = lists.access_interfaces]
        access_intf_cfg == render_intfs(access_template(h2), h2.access_interfaces)
        intf_cfg == ibns_intf_result(uplink_intf_cfg, access_intf_cfg)
        h3 == [h2 EXCEPT !.cfg_out = concat_cfg(global_cfg, intf_cfg)]
    IN [host |-> h3,
        render |-> [global_cfg |-> global_cfg,
                    uplink_intf_cfg |-> uplink_intf_cfg,
                    access_intf_cfg |-> access_intf_cfg],
        cfg_file |-> h3.cfg_out]

(***************************************************************************)
(* Inputs: what a switch can answer and what the inventory can hold.       *)
(***************************************************************************)
PortNames == <<"Gi1/0/1", "Gi1/0/2", "Gi1/0/3", "Gi1/0/4">>

Ports == {PortNames[i] : i \in 1..NumPorts}

\* access_vlan column of "show interface switchport"
AccessVlanValues == {<<"1">>, <<"1", "0">>}

\* vlans of the inventory are ints
VlanIds == {10, 20}

Regions == {"east", "west"}

IntfRecords == [interface : Ports, access_vlan : AccessVlanValues]

\* switchport rows: interface names are unique within a switch
IntfLists ==
    UNION {{s \in [1..n -> IntfRecords] :
               \A i, j \in 1..n : i # j => s[i].interface # s[j].interface}
           : n \in 0..MaxIntfs}

VlanLists == UNION {[1..n -> VlanIds] : n \in 0..MaxVlans}

Hardwares == {<<"W", "S", "-", "C", "3", "7", "5", "0", "X", "-", "4", "8", "P">>,
              <<"W", "S", "-", "C", "9", "3", "0", "0", "-", "2", "4", "T">>,
              <<"C", "9", "3", "0", "0">>}

ModelAlphabet == {"3", "7", "5", "0", "C"}

ModelStrings == UNION {[1..n -> ModelAlphabet] : n \in 1..MaxModelLen}

\* task.host as loaded from the inventory, before any task has run
inventory_host(vlans, uplinks, excluded_intf, region) ==
    [vlans |-> vlans, uplinks |-> uplinks, excluded_intf |-> excluded_intf,
     region |-> region,
     sw_model |-> <<>>, intfs |-> <<>>, vlan_list |-> <<>>, ibns_ver |-> "",
     uplink_interfaces |-> <<>>, access_interfaces |-> <<>>, cfg_out |-> <<>>]

NoRender == [global_cfg |-> <<>>, uplink_intf_cfg |-> <<>>, access_intf_cfg |-> <<>>]

InitTasks ==
    /\ stage = "start"
    /\ render = NoRender
    /\ cfg_file = <<>>
    /\ main_pc = "not_run"
    /\ nr_devices = <<>>
    /\ nr_hosts = <<>>
    /\ results = <<>>
    /\ failed_hosts = {}
    /\ progress = <<>>
    /\ fault = <<>>
    /\ confirm = <<>>
    /\ switches = <<>>

\* any switch, any inventory entry
InitRender ==
    /\ device \in [hardware : Hardwares, switchport : IntfLists]
    /\ host \in {inventory_host(v, u, e, r) :
                    v \in VlanLists, u \in SUBSET Ports, e \in SUBSET Ports,
                    r \in Regions}
    /\ InitTasks

\* any model string between the dashes of the hardware string
InitDialect ==
    /\ device \in {[hardware |-> <<"W", "S", "-">> \o m \o <<"-", "4", "8", "P">>,
                    switchport |-> <<[interface |-> PortNames[1],
                                      access_vlan |-> <<"1", "0">>]>>]
                   : m \in ModelStrings}
    /\ host = inventory_host(<<10>>, {}, {}, "east")
    /\ InitTasks

(***************************************************************************)
(* The tasks on one switch.                                                *)
(***************************************************************************)
get_info ==
    /\ stage = "start"
    /\ IF get_info_ok(device)
       THEN /\ host' = get_info_host(host, device)
            /\ stage' = "got_info"
       ELSE /\ host' = host
            /\ stage' = "failed"
    /\ UNCHANGED <<device, render, cfg_file, run_vars>>

render_configs ==
    /\ stage = "got_info"
    /\ LET r == render_configs_host(host)
       IN /\ host' = r.host
          /\ render' = r.render
          /\ cfg_file' = r.cfg_file
    /\ stage' = "rendered"
    /\ UNCHANGED <<device, run_vars>>

NextTasks == get_info \/ render_configs

SpecRender == InitRender /\ [][NextTasks]_vars

SpecDialect == InitDialect /\ [][NextTasks]_vars

(***************************************************************************)
(* main(): five nr.run calls over the inventory.  Each run starts the task *)
(* on every switch not in failed_hosts, the tasks of one run interleave    *)
(* freely, a task that raises fails only its switch, and the run returns   *)
(* when every task has ended, adding the failed switches to failed_hosts.  *)
(***************************************************************************)
HostNames == <<"sw1", "sw2", "sw3", "sw4">>

Hosts == {HostNames[i] : i \in 1..NumHosts}

Tasks == <<"get_info", "render_configs", "apply_configs", "verify_dot1x",
           "save_configs">>

\* what the operator may type at the (y/n) prompt
Answers == {"Y", "n"}

\* what "show dot1x all" may report as Sysauthcontrol
Dot1xStatuses == {"Enabled", "Disabled"}

\* confirm.lower()
lower(c) == IF c = "Y" THEN "y" ELSE IF c = "N" THEN "n" ELSE c

\* `except:` with no exception class catches every exception, SystemExit too
bare_except_catches(exc) == TRUE

\* proceed(): "returns" to its caller, or "exits" the script
proceed(c) ==
    IF lower(c) = "y" THEN "returns"
    ELSE IF bare_except_catches("SystemExit") THEN "returns" ELSE "exits"

\* variant: an empty interface inventory is an error
render_configs_raises_on_empty(h, io_error) == io_error \/ Len(h.intfs) = 0

\* render_configs raises exactly when a collaborator (template, file) raises
render_configs_raises(h, io_error) == io_error

\* variant: a status other than Enabled is an error
verify_dot1x_raises_on_mismatch(status, io_error) == io_error \/ status # "Enabled"

\* verify_dot1x prints the parsed status and raises only when a collaborator does
verify_dot1x_raises(status, io_error) == io_error

\* variant: main() stops after a run in which a switch failed
next_pc_raise_on_error(pc, res) ==
    IF pc = Tasks[Len(Tasks)] \/ \E h \in DOMAIN res : res[h] = "failed" THEN "done"
    ELSE Tasks[(CHOOSE i \in 1..Len(Tasks) : Tasks[i] = pc) + 1]

\* main() goes on to the next nr.run whatever the results of this one
next_pc(pc, res) ==
    IF pc = Tasks[Len(Tasks)] THEN "done"
    ELSE Tasks[(CHOOSE i \in 1..Len(Tasks) : Tasks[i] = pc) + 1]

\* the switches nr.run starts the task on
run_on == Hosts \ failed_hosts

\* the 3750 is the first switch of the inventory
hardware_of(h) ==
    IF h = HostNames[1]
    THEN <<"W", "S", "-", "C", "3", "7", "5", "0", "X", "-", "4", "8", "P">>
    ELSE <<"W", "S", "-", "C", "9", "3", "0", "0", "-", "2", "4", "T">>

Switchports == {<<>>, <<[interface |-> PortNames[1], access_vlan |-> <<"1", "0">>]>>}

Init ==
    /\ device = <<>>
    /\ host = <<>>
    /\ stage = "not_run"
    /\ render = NoRender
    /\ cfg_file = <<>>
    /\ main_pc = Tasks[1]
    /\ nr_devices \in {[h \in Hosts |-> [hardware |-> hardware_of(h),
                                          switchport |-> sp[h]]]
                       : sp \in [Hosts -> Switchports]}
    /\ nr_hosts = [h \in Hosts |-> inventory_host(<<10>>, {}, {}, "east")]
    /\ results = [h \in Hosts |-> "none"]
    /\ failed_hosts = {}
    /\ progress = [h \in Hosts |-> [done |-> <<>>, failed |-> "none"]]
    /\ fault = [h \in Hosts |-> "none"]
    /\ confirm = [h \in Hosts |-> [apply_configs |-> "", save_configs |-> ""]]
    /\ switches = [h \in Hosts |-> [pushed |-> FALSE, saved |-> FALSE,
                                    dot1x |-> "", verified_file |-> FALSE]]

\* the task is running on h in the current nr.run
running(h, task) == main_pc = task /\ h \in run_on /\ results[h] = "none"

\* the task on h ends, raising or not
task_ends(h, task, raised, io_error) ==
    /\ results' = [results EXCEPT ![h] = IF raised THEN "failed" ELSE "ok"]
    /\ progress' = [progress EXCEPT ![h] =
                       IF raised THEN [@ EXCEPT !.failed = task]
                       ELSE [@ EXCEPT !.done = Append(@, task)]]
    /\ fault' = [fault EXCEPT ![h] = IF io_error THEN task ELSE @]

run_get_info(h) ==
    /\ running(h, "get_info")
    /\ \E io_error \in BOOLEAN :
          LET raised == io_error \/ ~get_info_ok(nr_devices[h])
          IN /\ task_ends(h, "get_info", raised, io_error)
             /\ nr_hosts' = [nr_hosts EXCEPT ![h] =
                                IF raised THEN @ ELSE get_info_host(@, nr_devices[h])]
    /\ UNCHANGED <<task_vars, main_pc, nr_devices, failed_hosts, confirm, switches>>

run_render_configs(h) ==
    /\ running(h, "render_configs")
    /\ \E io_error \in BOOLEAN :
          LET raised == render_configs_raises(nr_hosts[h], io_error)
          IN /\ task_ends(h, "render_configs", raised, io_error)
             /\ nr_hosts' = [nr_hosts EXCEPT ![h] =
                                IF raised THEN @ ELSE render_configs_host(@).host]
    /\ UNCHANGED <<task_vars, main_pc, nr_devices, failed_hosts, confirm, switches>>

run_apply_configs(h) ==
    /\ running(h, "apply_configs")
    /\ \E c \in Answers, io_error \in BOOLEAN :
          /\ confirm' = [confirm EXCEPT ![h].apply_configs = c]
          /\ IF proceed(c) = "returns"
             THEN /\ task_ends(h, "apply_configs", io_error, io_error)
                  /\ switches' = [switches EXCEPT ![h].pushed = ~io_error]
                  /\ main_pc' = main_pc
             ELSE /\ main_pc' = "exited"
                  /\ UNCHANGED <<results, progress, fault, switches>>
    /\ UNCHANGED <<task_vars, nr_devices, nr_hosts, failed_hosts>>

run_verify_dot1x(h) ==
    /\ running(h, "verify_dot1x")
    /\ \E io_error \in BOOLEAN, status \in Dot1xStatuses :
          LET raised == verify_dot1x_raises(status, io_error)
          IN /\ task_ends(h, "verify_dot1x", raised, io_error)
             /\ switches' = [switches EXCEPT
                                ![h].dot1x = IF io_error THEN @ ELSE status,
                                ![h].verified_file = ~raised]
    /\ UNCHANGED <<task_vars, main_pc, nr_devices, nr_hosts, failed_hosts, confirm>>

run_save_configs(h) ==
    /\ running(h, "save_configs")
    /\ \E c \in Answers, io_error \in BOOLEAN :
          /\ confirm' = [confirm EXCEPT ![h].save_configs = c]
          /\ IF proceed(c) = "returns"
             THEN /\ task_ends(h, "save_configs", io_error, io_error)
                  /\ switches' = [switches EXCEPT ![h].saved = ~io_error]
                  /\ main_pc' = main_pc
             ELSE /\ main_pc' = "exited"
                  /\ UNCHANGED <<results, progress, fault, switches>>
    /\ UNCHANGED <<task_vars, nr_devices, nr_hosts, failed_hosts>>

\* nr.run returns: every started task has ended
run_returns ==
    /\ main_pc \in Range(Tasks)
    /\ \A h \in run_on : results[h] # "none"
    /\ failed_hosts' = failed_hosts \cup {h \in Hosts : results[h] = "failed"}
    /\ results' = [h \in Hosts |-> "none"]
    /\ main_pc' = next_pc(main_pc, results)
    /\ UNCHANGED <<task_vars, nr_devices, nr_hosts, progress, fault, confirm, switches>>

Next ==
    \/ \E h \in Hosts : run_get_info(h)
    \/ \E h \in Hosts : run_render_configs(h)
    \/ \E h \in Hosts : run_apply_configs(h)
    \/ \E h \in Hosts : run_verify_dot1x(h)
    \/ \E h \in Hosts : run_save_configs(h)
    \/ run_returns

Spec == Init /\ [][Next]_vars

(***************************************************************************)
(* Properties.                                                             *)
(***************************************************************************)
\* "3750" occurs in m, character by character
Has3750(m) ==
    \E i \in 1..(Len(m) - 3) :
        m[i] = "3" /\ m[i + 1] = "7" /\ m[i + 2] = "5" /\ m[i + 3] = "0"

\* the target vlan list holds the access vlan v
IsTargetVlan(v) == \E i \in 1..Len(host.vlans) : host.vlans[i] = v

InList(r, list) == \E i \in 1..Len(list) : list[i] = r

\* interfaces the loop passes over because their name is excluded
ExcludedGroup ==
    SelectSeq(host.intfs, LAMBDA r : r.interface \notin host.uplinks
                                     /\ r.interface \in host.excluded_intf)

\* C1: for every non-empty model string the dialect chosen is v1 exactly when
\* the model contains "3750", it is v2 for every other model, and no model
\* makes the task fail.
Thm_C1 ==
    /\ stage # "failed"
    /\ stage # "start" =>
          /\ host.ibns_ver \in {"v1", "v2"}
          /\ host.ibns_ver = "v1" <=> Has3750(host.sw_model)

\* a model with "3750" inside it, not at its start, was given v1
Wit_C1 ==
    /\ stage = "got_info"
    /\ host.ibns_ver = "v1"
    /\ Len(host.sw_model) = 5
    /\ host.sw_model[1] = "C"

\* C2 as stated: under v1 the access list is every input interface that is
\* neither an uplink nor excluded, whatever its access vlan.
CE_C2 ==
    (stage = "rendered" /\ host.ibns_ver = "v1") =>
        host.access_interfaces =
            SelectSeq(device.switchport,
                      LAMBDA r : r.interface \notin host.uplinks
                                 /\ r.interface \notin host.excluded_intf)

\* C2 amended: under v1 the access list is, in input order, every input
\* interface that is neither an uplink nor excluded and whose access vlan is in
\* the target vlan list.
Thm_C2 ==
    (stage = "rendered" /\ host.ibns_ver = "v1") =>
        host.access_interfaces =
            SelectSeq(device.switchport,
                      LAMBDA r : r.interface \notin host.uplinks
                                 /\ r.interface \notin host.excluded_intf
                                 /\ IsTargetVlan(r.access_vlan))

\* a v1 switch with one interface taken as access and another, neither uplink
\* nor excluded, left out because of its vlan
Wit_C2 ==
    /\ stage = "rendered"
    /\ host.ibns_ver = "v1"
    /\ Len(host.access_interfaces) = 1
    /\ \E i \in 1..Len(host.intfs) :
          /\ host.intfs[i].interface \notin host.uplinks \cup host.excluded_intf
          /\ ~InList(host.intfs[i], host.access_interfaces)

\* C3: under v2 every access interface has its access vlan in the target list,
\* and an interface that is no uplink, not excluded and on another vlan is in
\* none of the uplink, access and excluded groups.
Thm_C3 ==
    (stage = "rendered" /\ host.ibns_ver = "v2") =>
        /\ \A i \in 1..Len(host.access_interfaces) :
              IsTargetVlan(host.access_interfaces[i].access_vlan)
        /\ \A i \in 1..Len(device.switchport) :
              LET r == device.switchport[i]
              IN (/\ r.interface \notin host.uplinks
                  /\ r.interface \notin host.excluded_intf
                  /\ ~IsTargetVlan(r.access_vlan))
                 => /\ ~InList(r, host.uplink_interfaces)
                    /\ ~InList(r, host.access_interfaces)
                    /\ ~InList(r, ExcludedGroup)

\* a v2 switch with a non-empty target list, one access interface and one
\* interface dropped for its vlan
Wit_C3 ==
    /\ stage = "rendered"
    /\ host.ibns_ver = "v2"
    /\ Len(host.vlans) > 0
    /\ Len(host.access_interfaces) = 1
    /\ \E i \in 1..Len(host.intfs) :
          /\ host.intfs[i].interface \notin host.uplinks \cup host.excluded_intf
          /\ ~IsTargetVlan(host.intfs[i].access_vlan)

\* C4: the uplink, access and excluded groups are pairwise disjoint.
Thm_C4 ==
    stage = "rendered" =>
        /\ Range(host.uplink_interfaces) \cap Range(host.access_interfaces) = {}
        /\ Range(host.uplink_interfaces) \cap Range(ExcludedGroup) = {}
        /\ Range(host.access_interfaces) \cap Range(ExcludedGroup) = {}
        /\ Len(host.uplink_interfaces) + Len(host.access_interfaces)
              + Len(ExcludedGroup) <= Len(device.switchport)

\* an uplink that is not excluded and sits on a target vlan, next to an access
\* interface
Wit_C4 ==
    /\ stage = "rendered"
    /\ Len(host.access_interfaces) = 1
    /\ \E i \in 1..Len(host.uplink_interfaces) :
          /\ host.uplink_interfaces[i].interface \notin host.excluded_intf
          /\ IsTargetVlan(host.uplink_interfaces[i].access_vlan)

\* C5: an interface named in uplinks is in the uplink list, whatever its vlan
\* and even when it is named in excluded_intf too; it is neither excluded nor
\* an access interface.
Thm_C5 ==
    stage = "rendered" =>
        \A i \in 1..Len(device.switchport) :
            LET r == device.switchport[i]
            IN r.interface \in host.uplinks
               => /\ InList(r, host.uplink_interfaces)
                  /\ ~InList(r, host.access_interfaces)
                  /\ ~InList(r, ExcludedGroup)

\* an interface named both in uplinks and in excluded_intf, on a vlan outside
\* the target list, was classified
Wit_C5 ==
    /\ stage = "rendered"
    /\ \E i \in 1..Len(host.intfs) :
          /\ host.intfs[i].interface \in host.uplinks \cap host.excluded_intf
          /\ ~IsTargetVlan(host.intfs[i].access_vlan)
          /\ InList(host.intfs[i], host.uplink_interfaces)

\* C6: the written config is the global text, one newline, the uplink text,
\* then the access text, for every dialect, region and emptiness of the groups.
Thm_C6 ==
    stage = "rendered" =>
        /\ host.cfg_out = render.global_cfg \o <<"\n">>
                          \o render.uplink_intf_cfg \o render.access_intf_cfg
        /\ cfg_file = host.cfg_out
        /\ SubSeq(host.cfg_out, 1, 5) = global_template(host)
        /\ host.cfg_out[Len(render.global_cfg) + 1] = "\n"
        /\ Len(host.uplink_interfaces) > 0 =>
              host.cfg_out[Len(render.global_cfg) + 2] = uplink_template[1]
        /\ Len(host.access_interfaces) > 0 =>
              SubSeq(host.cfg_out,
                     Len(render.global_cfg) + Len(render.uplink_intf_cfg) + 2,
                     Len(render.global_cfg) + Len(render.uplink_intf_cfg) + 4)
                 = access_template(host)

\* a v2 switch of region west rendered with no uplink and one access interface
Wit_C6 ==
    /\ stage = "rendered"
    /\ host.ibns_ver = "v2"
    /\ host.region = "west"
    /\ Len(host.uplink_interfaces) = 0
    /\ Len(host.access_interfaces) = 1

\* every task of main() has completed on h
Completed(h) == progress[h].done = Tasks

\* C7: a switch fails only in a task in which its own collaborator raised, and
\* once main() is done every switch that did not fail has completed all five
\* tasks, whatever happened to the others.
Thm_C7 ==
    /\ \A h \in Hosts : progress[h].failed = fault[h]
    /\ \A h \in Hosts : h \in failed_hosts => progress[h].failed # "none"
    /\ main_pc = "done" =>
          \A h \in Hosts : progress[h].failed = "none" => Completed(h)

\* main() is done, one switch failed in apply_configs and another completed
Wit_C7 ==
    /\ main_pc = "done"
    /\ \E h1, h2 \in Hosts :
          /\ progress[h1].failed = "apply_configs"
          /\ Completed(h2)
          /\ switches[h2].saved

\* C8: a switch whose reported dot1x status is not Enabled does not fail in
\* verify_dot1x; save_configs is still run on it, and it completes unless the
\* save itself fails.
Thm_C8 ==
    \A h \in Hosts :
        switches[h].dot1x = "Disabled" =>
            /\ progress[h].failed \in {"none", "save_configs"}
            /\ main_pc = "save_configs" => h \in run_on
            /\ main_pc = "done" =>
                  /\ confirm[h].save_configs # ""
                  /\ progress[h].failed = "none" => Completed(h) /\ switches[h].saved

\* a switch that reported Disabled has been saved and has completed
Wit_C8 ==
    \E h \in Hosts :
        /\ switches[h].dot1x = "Disabled"
        /\ main_pc = "done"
        /\ Completed(h)
        /\ switches[h].saved

\* get_info has completed on h and returned no interfaces
EmptyInventory(h) ==
    /\ Len(progress[h].done) >= 1
    /\ nr_hosts[h].intfs = <<>>

\* C9 as stated: a switch whose interface inventory is empty fails at
\* classification and is never rendered, pushed to or saved.
CE_C9 ==
    \A h \in Hosts :
        EmptyInventory(h) =>
            /\ Len(progress[h].done) = 1
            /\ ~switches[h].pushed
            /\ ~switches[h].saved
            /\ main_pc \notin {"get_info", "render_configs"} =>
                  progress[h].failed = "render_configs"

\* C9 amended: an empty interface inventory is no error; the switch is
\* rendered with empty uplink and access lists (global text and newline only)
\* and goes on through apply, verify and save, failing only where a
\* collaborator raises.
Thm_C9 ==
    \A h \in Hosts :
        EmptyInventory(h) =>
            /\ progress[h].failed = fault[h]
            /\ Len(progress[h].done) >= 2 =>
                  /\ nr_hosts[h].uplink_interfaces = <<>>
                  /\ nr_hosts[h].access_interfaces = <<>>
                  /\ nr_hosts[h].cfg_out =
                        global_template(nr_hosts[h]) \o nr_hosts[h].vlan_list
                        \o <<"\n">>
            /\ (main_pc = "done" /\ fault[h] = "none") =>
                  /\ Completed(h)
                  /\ switches[h].pushed
                  /\ switches[h].saved

\* a switch with no interfaces has been rendered, pushed to and saved
Wit_C9 ==
    \E h \in Hosts :
        /\ EmptyInventory(h)
        /\ Completed(h)
        /\ switches[h].pushed
        /\ switches[h].saved

\* C10: when the operator answers anything but y or Y at the prompt of
\* apply_configs (of save_configs), no config is pushed to (saved on) that
\* switch.
CE_C10 ==
    \A h \in Hosts :
        /\ confirm[h].apply_configs \notin {"", "y", "Y"} => ~switches[h].pushed
        /\ confirm[h].save_configs \notin {"", "y", "Y"} => ~switches[h].saved

====
